---- MODULE Spec2Model ----
(***************************************************************************)
(* Model of the sam wiki server (package server): the metadata reader,     *)
(* the directory scanner, the tag index, route registration, the startup   *)
(* sequence of Run/initWiki and the request handlers, with the handlers    *)
(* of the single-file main.go beside them.                                 *)
(*                                                                         *)
(* Strings are TLA+ strings; Go's byte slicing s[lo:hi] is SubSeq.         *)
(***************************************************************************)
EXTENDS Integers, Sequences, FiniteSets, TLC

VARIABLES
    tags,      \* Tags.tags: sequence of Tag records [Name, Pages]
    ret,       \* error value returned by the last Tags.Add / Tags.Update call
    lastCall,  \* the last Tag Index call made: [op, name, page]
    added,     \* history: names for which Add has returned nil
    updates,   \* history: per name, the pages of the Update calls that returned nil
    mux,       \* http.DefaultServeMux: sequence of [pattern, kind, target]
    base,      \* the base URL prefix
    pc,        \* position of the program
    content,   \* the raw lines of the reader handed to readMeta
    metaRes,   \* what readMeta returned: [meta, err]
    dir,       \* the wiki root directory as configured (flag -dir / SAM_DIR)
    fs,        \* the files under the wiki root: slot [depth, name] -> raw lines
    pages,     \* the []*Page returned by readDir
    scanLog,   \* names logged by readDir as "Metadata for <name> not found"
    initErr,   \* whether initWiki returned an error
    k,         \* index of the next page of the registration loop of initWiki
    tagErrs,   \* the errors Tags.Add / Tags.Update returned to initWiki, which drops them
    resp,      \* the answer to the last request: [path, status, location, kind, panic, env]
    program,   \* which main is running: "server" (server.Run) or "main" (the single-file main.go)
    conns,     \* per connection goroutine: [pos, path, route], the request it is serving
    pmeta      \* Page.meta of the single-file program: page index -> the connection that stored it

tagVars == <<tags, ret, lastCall, added, updates>>
metaVars == <<content, metaRes>>
wikiVars == <<dir, fs, pages, scanLog, initErr, k, tagErrs, resp>>
connVars == <<program, conns, pmeta>>
vars == <<tags, ret, lastCall, added, updates, mux, base, pc, content, metaRes,
          dir, fs, pages, scanLog, initErr, k, tagErrs, resp, program, conns, pmeta>>

(***************************************************************************)
(* Bounds of the model                                                     *)
(***************************************************************************)
\* Largest total number of pages held by the index in the Tag Index harness
MaxUpdates == 3

\* Tag names and page references used by the Tag Index harness
TagNames == {"x", "y"}
PageIds == {"p1", "p2"}

\* Largest number of lines of an input of readMeta
MaxLines == 5

\* Deepest level of subdirectories under the wiki root
MaxDepth == 1

\* Largest number of files in the wiki tree
MaxFiles == 2

\* Largest number of connections served at the same time
MaxConns == 2

\* Base URL prefixes (flag -base / SAM_BASE)
Bases == {"/", "/wiki"}

\* Forms of the wiki root directory; "./" is the default of main
Roots == {"wiki", "wiki/", "./"}

(***************************************************************************)
(* Go string helpers                                                       *)
(***************************************************************************)
CharAt(s, i) == SubSeq(s, i, i)

\* strings.HasPrefix
HasPrefix(s, p) == Len(s) >= Len(p) /\ SubSeq(s, 1, Len(p)) = p

UpperChars == "ABCDEFGHIJKLMNOPQRSTUVWXYZ"
LowerChars == "abcdefghijklmnopqrstuvwxyz"

LowerChar(c) ==
    IF \E i \in 1..Len(UpperChars) : CharAt(UpperChars, i) = c
    THEN CharAt(LowerChars, CHOOSE i \in 1..Len(UpperChars) : CharAt(UpperChars, i) = c)
    ELSE c

RECURSIVE ToLowerFrom(_, _)
ToLowerFrom(s, i) ==
    IF i > Len(s) THEN "" ELSE LowerChar(CharAt(s, i)) \o ToLowerFrom(s, i + 1)

\* strings.ToLower
ToLower(s) == ToLowerFrom(s, 1)

RECURSIVE ReplaceFrom(_, _, _, _)
ReplaceFrom(s, old, new, i) ==
    IF i > Len(s) THEN ""
    ELSE IF i + Len(old) - 1 <= Len(s) /\ SubSeq(s, i, i + Len(old) - 1) = old
         THEN new \o ReplaceFrom(s, old, new, i + Len(old))
         ELSE CharAt(s, i) \o ReplaceFrom(s, old, new, i + 1)

RECURSIVE InterleaveFrom(_, _, _)
InterleaveFrom(s, new, i) ==
    IF i > Len(s) THEN new ELSE new \o CharAt(s, i) \o InterleaveFrom(s, new, i + 1)

\* strings.Replace(s, old, new, -1)
Replace(s, old, new) ==
    IF old = "" THEN InterleaveFrom(s, new, 1) ELSE ReplaceFrom(s, old, new, 1)

RECURSIVE SplitAt(_, _, _, _)
SplitAt(s, i, cur, acc) ==
    IF i > Len(s) THEN Append(acc, cur)
    ELSE IF CharAt(s, i) = "/" THEN SplitAt(s, i + 1, "", Append(acc, cur))
         ELSE SplitAt(s, i + 1, cur \o CharAt(s, i), acc)

RECURSIVE CleanSegs(_, _, _, _)
CleanSegs(segs, i, rooted, stack) ==
    IF i > Len(segs) THEN stack
    ELSE LET seg == segs[i] IN
         IF seg = "" \/ seg = "." THEN CleanSegs(segs, i + 1, rooted, stack)
         ELSE IF seg = ".."
              THEN IF Len(stack) > 0 /\ stack[Len(stack)] # ".."
                   THEN CleanSegs(segs, i + 1, rooted, SubSeq(stack, 1, Len(stack) - 1))
                   ELSE IF rooted THEN CleanSegs(segs, i + 1, rooted, stack)
                        ELSE CleanSegs(segs, i + 1, rooted, Append(stack, seg))
              ELSE CleanSegs(segs, i + 1, rooted, Append(stack, seg))

RECURSIVE JoinSegs(_, _)
JoinSegs(segs, i) ==
    IF i > Len(segs) THEN ""
    ELSE IF i = Len(segs) THEN segs[i]
         ELSE segs[i] \o "/" \o JoinSegs(segs, i + 1)

\* filepath.Clean (Unix)
Clean(path) ==
    IF path = "" THEN "."
    ELSE LET rooted == CharAt(path, 1) = "/"
             stack  == CleanSegs(SplitAt(path, 1, "", <<>>), 1, rooted, <<>>)
             out    == (IF rooted THEN "/" ELSE "") \o JoinSegs(stack, 1)
         IN  IF out = "" THEN "." ELSE out

\* filepath.Join(a, b)
Join(a, b) ==
    IF a = "" /\ b = "" THEN ""
    ELSE IF a = "" THEN Clean(b)
         ELSE IF b = "" THEN Clean(a)
              ELSE Clean(a \o "/" \o b)

RECURSIVE ExtFrom(_, _)
ExtFrom(path, i) ==
    IF i < 1 \/ CharAt(path, i) = "/" THEN ""
    ELSE IF CharAt(path, i) = "." THEN SubSeq(path, i, Len(path))
         ELSE ExtFrom(path, i - 1)

\* filepath.Ext
Ext(path) == ExtFrom(path, Len(path))

(***************************************************************************)
(* net/http: the route table                                               *)
(***************************************************************************)
Patterns(m) == {m[i].pattern : i \in 1..Len(m)}

\* http.HandleFunc: ServeMux panics on a pattern that is already registered
HandleFunc(m, pattern, kind, target) ==
    IF m.panic THEN m
    ELSE IF pattern = "" \/ pattern \in Patterns(m.routes)
         THEN [panic |-> TRUE, routes |-> m.routes]
         ELSE [panic |-> FALSE,
               routes |-> Append(m.routes, [pattern |-> pattern, kind |-> kind, target |-> target])]

(***************************************************************************)
(* Tag Index                                                               *)
(***************************************************************************)
\* Tags.Get: index of the first tag called n, 0 for nil
TagsGet(t, n) ==
    IF \E i \in 1..Len(t) : t[i].Name = n
    THEN CHOOSE i \in 1..Len(t) : t[i].Name = n /\ \A j \in 1..(i - 1) : t[j].Name # n
    ELSE 0

TagsAddNoCheck(t, n) ==
    [err |-> "nil", tags |-> Append(t, [Name |-> n, Pages |-> <<>>])]

\* Tags.Add
TagsAdd(t, n) ==
    IF TagsGet(t, n) # 0
    THEN [err |-> "tag already exists", tags |-> t]
    ELSE [err |-> "nil", tags |-> Append(t, [Name |-> n, Pages |-> <<>>])]

TagsUpdateUpsert(t, n, p) ==
    LET i == TagsGet(t, n) IN
    IF i = 0
    THEN [err |-> "nil", tags |-> Append(t, [Name |-> n, Pages |-> <<p>>])]
    ELSE [err |-> "nil", tags |-> [t EXCEPT ![i].Pages = Append(@, p)]]

TagsUpdatePrepend(t, n, p) ==
    LET i == TagsGet(t, n) IN
    IF i = 0
    THEN [err |-> "tag not found", tags |-> t]
    ELSE [err |-> "nil", tags |-> [t EXCEPT ![i].Pages = <<p>> \o @]]

\* Tags.Update
TagsUpdate(t, n, p) ==
    LET i == TagsGet(t, n) IN
    IF i = 0
    THEN [err |-> "tag not found", tags |-> t]
    ELSE [err |-> "nil", tags |-> [t EXCEPT ![i].Pages = Append(@, p)]]

TagsRegisterNoGuard(t, m, b) ==
    LET RECURSIVE Each(_, _)
        Each(mm, i) ==
            IF i > Len(t) THEN mm
            ELSE Each(HandleFunc(mm, Join(b, "/tags/" \o t[i].Name), "tag", t[i].Name), i + 1)
    IN  Each(HandleFunc(m, Join(b, "/tags"), "tags", ""), 1)

\* Tags.Register
TagsRegister(t, m, b) ==
    IF Len(t) > 0
    THEN LET RECURSIVE Each(_, _)
             Each(mm, i) ==
                 IF i > Len(t) THEN mm
                 ELSE Each(HandleFunc(mm, Join(b, "/tags/" \o t[i].Name), "tag", t[i].Name), i + 1)
         IN  Each(HandleFunc(m, Join(b, "/tags"), "tags", ""), 1)
    ELSE m

NoCall == [op |-> "none", name |-> "", page |-> ""]

IdleTags ==
    /\ tags = <<>>
    /\ ret = "none"
    /\ lastCall = NoCall
    /\ added = {}
    /\ updates = [n \in TagNames |-> <<>>]

(***************************************************************************)
(* Metadata Reader                                                         *)
(***************************************************************************)
\* A raw line on which sc.Scan() returns false and sc.Err() is not nil
\* (bufio.ErrTooLong for a line over bufio.MaxScanTokenSize, or a read error)
ScanFail == "<scan error>"

\* Raw lines (the bytes between two newlines) of the inputs of readMeta
RawLines == {"", "---", "tags: [a]", "draft: true", "---\r", "\r", ScanFail}

\* bufio.ScanLines: the token is the line without one trailing carriage return
DropCR(line) ==
    IF Len(line) > 0 /\ CharAt(line, Len(line)) = "\r"
    THEN SubSeq(line, 1, Len(line) - 1)
    ELSE line

RECURSIVE ReadMetaKeepBlankLoop(_, _, _, _)
ReadMetaKeepBlankLoop(lines, i, found, meta) ==
    IF i > Len(lines) THEN [meta |-> <<>>, err |-> "nil"]
    ELSE IF lines[i] = ScanFail THEN [meta |-> <<>>, err |-> "scan error"]
    ELSE LET text == DropCR(lines[i]) IN
         IF ~found
         THEN IF text = "" THEN ReadMetaKeepBlankLoop(lines, i + 1, found, meta)
              ELSE IF text = "---" THEN ReadMetaKeepBlankLoop(lines, i + 1, TRUE, meta)
                   ELSE [meta |-> <<>>, err |-> "Metadata not found"]
         ELSE IF text = "---" THEN [meta |-> meta, err |-> "nil"]
              ELSE ReadMetaKeepBlankLoop(lines, i + 1, found, Append(meta, text))

ReadMetaKeepBlank(lines) == ReadMetaKeepBlankLoop(lines, 1, FALSE, <<>>)

\* the for sc.Scan() loop of readMeta and its final return nil, sc.Err()
RECURSIVE ReadMetaLoop(_, _, _, _)
ReadMetaLoop(lines, i, found, meta) ==
    IF i > Len(lines) THEN [meta |-> <<>>, err |-> "nil"]
    ELSE IF lines[i] = ScanFail THEN [meta |-> <<>>, err |-> "scan error"]
    ELSE LET text == DropCR(lines[i]) IN
         IF text = "" THEN ReadMetaLoop(lines, i + 1, found, meta)
         ELSE IF ~found
              THEN IF text = "---" THEN ReadMetaLoop(lines, i + 1, TRUE, meta)
                   ELSE [meta |-> <<>>, err |-> "Metadata not found"]
              ELSE IF text = "---" THEN [meta |-> meta, err |-> "nil"]
                   ELSE ReadMetaLoop(lines, i + 1, found, Append(meta, text))

\* readMeta
ReadMeta(lines) == ReadMetaLoop(lines, 1, FALSE, <<>>)

(***************************************************************************)
(* Metadata Reader harness: readMeta applied to every bounded input        *)
(***************************************************************************)
NoResult == [meta |-> <<>>, err |-> "not called"]

IdleMeta ==
    /\ content = <<>>
    /\ metaRes = NoResult

NoResponse == [path |-> "", status |-> 0, location |-> "", kind |-> "none", panic |-> FALSE,
               env |-> "none"]

IdleWiki ==
    /\ dir = ""
    /\ fs = <<>>
    /\ pages = <<>>
    /\ scanLog = <<>>
    /\ initErr = FALSE
    /\ k = 0
    /\ tagErrs = <<>>
    /\ resp = NoResponse

\* The connection goroutines net/http starts, one per accepted connection
Conns == 1..MaxConns

IdleConn == [pos |-> "idle", path |-> "", route |-> 0]

IdleConns ==
    /\ program = "server"
    /\ conns = [c \in Conns |-> IdleConn]
    /\ pmeta = <<>>

InitMeta ==
    /\ IdleConns
    /\ IdleTags
    /\ mux = <<>>
    /\ base = "/"
    /\ pc = "meta"
    /\ content \in UNION {[1..n -> RawLines] : n \in 0..MaxLines}
    /\ metaRes = NoResult
    /\ IdleWiki

ReadMetaCall ==
    /\ pc = "meta"
    /\ metaRes' = ReadMeta(content)
    /\ pc' = "done"
    /\ UNCHANGED <<tagVars, mux, base, content, wikiVars, connVars>>

NextMeta == ReadMetaCall

SpecMeta == InitMeta /\ [][NextMeta]_vars

(***************************************************************************)
(* Properties of the Metadata Reader                                       *)
(***************************************************************************)
\* The lines the scanner yields for the input
ScannedLines(lines) == [i \in 1..Len(lines) |-> DropCR(lines[i])]

\* Index of the first non-blank line, 0 when every line is blank
FirstNonBlank(lines) ==
    LET nb == {i \in 1..Len(lines) : ScannedLines(lines)[i] # ""} IN
    IF nb = {} THEN 0 ELSE CHOOSE i \in nb : \A j \in nb : i <= j

\* Index of the first `---` line after line open, 0 when there is none
NextDelimiter(lines, open) ==
    LET ds == {i \in (open + 1)..Len(lines) : ScannedLines(lines)[i] = "---"} IN
    IF ds = {} THEN 0 ELSE CHOOSE i \in ds : \A j \in ds : i <= j

\* The first non-blank line is `---`, a later `---` line exists and the
\* scanner reads every line up to it
Delimited(lines) ==
    LET open == FirstNonBlank(lines) IN
    /\ open # 0
    /\ ScannedLines(lines)[open] = "---"
    /\ NextDelimiter(lines, open) # 0
    /\ \A i \in 1..NextDelimiter(lines, open) : lines[i] # ScanFail

Between(lines) ==
    LET open == FirstNonBlank(lines) IN
    SubSeq(ScannedLines(lines), open + 1, NextDelimiter(lines, open) - 1)

NonBlank(line) == line # ""

\* C5 as stated: for an input whose first non-blank line is `---` and that
\* has a later `---` line, readMeta returns exactly the lines strictly
\* between the two delimiters, blank lines inside the block included.
C5_Original ==
    (pc = "done" /\ Delimited(content)) =>
        (metaRes.err = "nil" /\ metaRes.meta = Between(content))

\* C5 amended: for such an input readMeta returns, in order and verbatim,
\* the non-blank lines strictly between the two delimiters; blank lines are
\* skipped inside the block as well as before the opening delimiter.
C5_NonBlankBetween ==
    (pc = "done" /\ Delimited(content)) =>
        (metaRes.err = "nil" /\ metaRes.meta = SelectSeq(Between(content), NonBlank))

\* readMeta has returned a block that had a blank line and a metadata line
\* inside, after a blank line before the opening delimiter
C5_Witness ==
    /\ pc = "done"
    /\ Delimited(content)
    /\ FirstNonBlank(content) > 1
    /\ Len(metaRes.meta) = 1
    /\ Len(Between(content)) = 2

(***************************************************************************)
(* Tag Index harness: any sequence of Add and Update calls, then Register  *)
(***************************************************************************)
TotalPages(t) ==
    LET RECURSIVE Sum(_)
        Sum(i) == IF i > Len(t) THEN 0 ELSE Len(t[i].Pages) + Sum(i + 1)
    IN  Sum(1)

InitTags ==
    /\ IdleConns
    /\ IdleTags
    /\ IdleMeta
    /\ IdleWiki
    /\ mux = <<>>
    /\ base \in Bases
    /\ pc = "api"

Add(n) ==
    /\ pc = "api"
    /\ LET r == TagsAdd(tags, n) IN
       /\ tags' = r.tags
       /\ ret' = r.err
       /\ added' = IF r.err = "nil" THEN added \cup {n} ELSE added
    /\ lastCall' = [op |-> "Add", name |-> n, page |-> ""]
    /\ UNCHANGED <<updates, mux, base, pc, metaVars, wikiVars, connVars>>

Update(n, p) ==
    /\ pc = "api"
    /\ TotalPages(tags) < MaxUpdates
    /\ LET r == TagsUpdate(tags, n, p) IN
       /\ tags' = r.tags
       /\ ret' = r.err
       /\ updates' = IF r.err = "nil" THEN [updates EXCEPT ![n] = Append(@, p)] ELSE updates
    /\ lastCall' = [op |-> "Update", name |-> n, page |-> p]
    /\ UNCHANGED <<added, mux, base, pc, metaVars, wikiVars, connVars>>

Register ==
    /\ pc = "api"
    /\ LET m == TagsRegister(tags, [panic |-> FALSE, routes |-> mux], base) IN
       /\ mux' = m.routes
       /\ pc' = IF m.panic THEN "panic" ELSE "registered"
    /\ lastCall' = [op |-> "Register", name |-> "", page |-> ""]
    /\ UNCHANGED <<tags, ret, added, updates, base, metaVars, wikiVars, connVars>>

NextTags ==
    \/ \E n \in TagNames : Add(n)
    \/ \E n \in TagNames, p \in PageIds : Update(n, p)
    \/ Register

SpecTags == InitTags /\ [][NextTags]_vars

(***************************************************************************)
(* Properties of the Tag Index                                             *)
(***************************************************************************)
HasTag(t, n) == \E i \in 1..Len(t) : t[i].Name = n

\* C1: Add(name) on an index that already holds a tag called name returns
\* "tag already exists" and leaves the index unchanged; on an index without
\* that name it appends one tag with an empty page list and returns nil.
C1_AddContract ==
    [][lastCall'.op = "Add" =>
          LET n == lastCall'.name IN
          IF HasTag(tags, n)
          THEN ret' = "tag already exists" /\ tags' = tags
          ELSE ret' = "nil" /\ tags' = Append(tags, [Name |-> n, Pages |-> <<>>])]_vars

\* An Add of a present name has just failed on an index holding pages
C1_Witness ==
    /\ lastCall.op = "Add"
    /\ ret = "tag already exists"
    /\ HasTag(tags, lastCall.name)
    /\ Len(tags) = 2
    /\ TotalPages(tags) > 0

\* C2: Update(name, page) returns "not found" and leaves the whole index
\* unchanged whenever no Add(name) has succeeded before, whatever Add and
\* Update calls were made on other names.
C2_UpdateNotFound ==
    [][(lastCall'.op = "Update" /\ lastCall'.name \notin added) =>
          (ret' = "tag not found" /\ tags' = tags)]_vars

\* An Update of a never-added name has just failed, after calls on another name
C2_Witness ==
    /\ lastCall.op = "Update"
    /\ lastCall.name \notin added
    /\ ret = "tag not found"
    /\ \E i \in 1..Len(tags) : Len(tags[i].Pages) > 0

\* C3: for every tag name n in the index, Get(n).Pages is the sequence of
\* the pages of the successful Update(n, p) calls in call order; an Update
\* of n therefore changes no other tag's page list.
C3_PagesInCallOrder ==
    \A n \in TagNames :
        IF TagsGet(tags, n) # 0
        THEN tags[TagsGet(tags, n)].Pages = updates[n]
        ELSE updates[n] = <<>>

\* Two tags, one updated with two different pages, the other with a different list
C3_Witness ==
    /\ Len(tags) = 2
    /\ \E n \in TagNames :
          /\ TagsGet(tags, n) # 0
          /\ Len(tags[TagsGet(tags, n)].Pages) = 2
          /\ tags[TagsGet(tags, n)].Pages[1] # tags[TagsGet(tags, n)].Pages[2]
          /\ \E o \in TagNames \ {n} :
                TagsGet(tags, o) # 0 /\ Len(tags[TagsGet(tags, o)].Pages) = 1

\* The base prefix without its trailing slash
BasePrefix(b) == IF CharAt(b, Len(b)) = "/" THEN SubSeq(b, 1, Len(b) - 1) ELSE b

RoutesAt(m, pattern) == {i \in 1..Len(m) : m[i].pattern = pattern}

\* C10: Tags.Register(base) installs no route when the index is empty;
\* otherwise it installs exactly one route at base + /tags and exactly one
\* at base + /tags/<name> for every tag of the index, and nothing else.
C10_TagsRegister ==
    pc = "registered" =>
        IF Len(tags) = 0
        THEN mux = <<>>
        ELSE /\ Len(mux) = Len(tags) + 1
             /\ Cardinality(RoutesAt(mux, BasePrefix(base) \o "/tags")) = 1
             /\ \A i \in 1..Len(tags) :
                   Cardinality(RoutesAt(mux, BasePrefix(base) \o "/tags/" \o tags[i].Name)) = 1

\* Register has run on an index of two tags under a non-root base
C10_Witness ==
    /\ pc = "registered"
    /\ Len(tags) = 2
    /\ base = "/wiki"
    /\ Len(mux) = 3


(***************************************************************************)
(* The wiki tree                                                           *)
(***************************************************************************)
\* Entry names of a directory in the order os.ReadDir returns them (sorted
\* by filename, bytewise); "sub" is the subdirectory
Listing == <<"Home.md", "X.md", "home.md", "redirects.conf", "sub">>
SubDir == "sub"
FileNames == {Listing[i] : i \in 1..Len(Listing)} \ {SubDir}

\* A file is the slot <<depth, name>>: name inside depth nested "sub" directories
Slots == (0..MaxDepth) \X FileNames

\* File contents as raw lines
NoMeta == <<"# Hi">>
Empty == <<>>
TagsA == <<"---", "tags: [a]", "---", "# Hi">>
TagsAB == <<"---", "tags: [a, b]", "draft: true", "", "---", "# Hi">>
TagsAA == <<"---", "tags: [a, a]", "---">>
BadYaml == <<"---", "tags: [a", "---", "# Hi">>
Unreadable == <<ScanFail>>
FileContents == {NoMeta, Empty, TagsA, TagsAB, TagsAA, BadYaml, Unreadable}

\* redirects.conf in the wiki root: one redirect, or a document that does
\* not decode into map[string]string
RedirectsConf == <<0, "redirects.conf">>
ConfOk == <<"old: new">>
ConfBad == <<"old: [">>
ConfContents == {ConfOk, ConfBad}

\* The contents a file of the tree may have
ContentsOf(sl) ==
    IF Ext(sl[2]) = ".md" THEN FileContents
    ELSE IF sl = RedirectsConf THEN ConfContents
         ELSE {ConfOk}

\* The trees: at most MaxFiles files, Markdown files with any content
Trees ==
    UNION {{c \in [S -> FileContents \cup ConfContents] : \A sl \in S : c[sl] \in ContentsOf(sl)} :
           S \in {T \in SUBSET Slots : Cardinality(T) <= MaxFiles}}

(***************************************************************************)
(* Structured metadata                                                     *)
(***************************************************************************)
ZeroMeta == [Tags |-> <<>>, Draft |-> FALSE]

\* What a line of a metadata block sets when decoded into Meta; each key
\* occurs at most once in the blocks of FileContents
YamlLine(line, m) ==
    IF line = "tags: [a]" THEN [m EXCEPT !.Tags = <<"a">>]
    ELSE IF line = "tags: [a, b]" THEN [m EXCEPT !.Tags = <<"a", "b">>]
    ELSE IF line = "tags: [a, a]" THEN [m EXCEPT !.Tags = <<"a", "a">>]
    ELSE IF line = "draft: true" THEN [m EXCEPT !.Draft = TRUE]
    ELSE m

\* Lines the YAML parser rejects (an unterminated flow sequence)
YamlSyntaxError(line) == line = "tags: [a"

RECURSIVE YamlFold(_, _, _)
YamlFold(meta, i, m) ==
    IF i > Len(meta) THEN m ELSE YamlFold(meta, i + 1, YamlLine(meta[i], m))

\* yaml.Unmarshal([]byte(strings.Join(meta, "\n")), &m): the value of m
\* afterwards; readDir drops the returned error
Unmarshal(meta) ==
    IF \E i \in 1..Len(meta) : YamlSyntaxError(meta[i])
    THEN [m |-> ZeroMeta, err |-> "yaml"]
    ELSE [m |-> YamlFold(meta, 1, ZeroMeta), err |-> "nil"]

(***************************************************************************)
(* Directory Scanner                                                       *)
(***************************************************************************)
\* readDir: [status, pages, log]; status is "ok", "error" (the returned
\* error is not nil) or "panic" (slice bounds out of range)
RECURSIVE ReadDir(_, _)
RECURSIVE ReadDirLoop(_, _, _, _, _)
ReadDirLoop(d, depth, i, acc, log) ==
    IF i > Len(Listing) THEN [status |-> "ok", pages |-> acc, log |-> log]
    ELSE LET name == Listing[i] IN
         IF name = SubDir
         THEN IF depth < MaxDepth
              THEN LET r == ReadDir(Join(d, name), depth + 1) IN
                   IF r.status # "ok"
                   THEN [status |-> r.status, pages |-> <<>>, log |-> log \o r.log]
                   ELSE ReadDirLoop(d, depth, i + 1, acc \o r.pages, log \o r.log)
              ELSE ReadDirLoop(d, depth, i + 1, acc, log)
         ELSE IF <<depth, name>> \notin DOMAIN fs
              THEN ReadDirLoop(d, depth, i + 1, acc, log)
         ELSE IF Ext(name) = ".md"
              THEN LET n     == SubSeq(name, 1, Len(name) - Len(Ext(name)))
                       fpath == Join(d, name)
                       lo    == Len(d)
                       hi    == Len(fpath) - Len(Ext(name))
                   IN
                   IF lo > hi \/ hi > Len(fpath)
                   THEN [status |-> "panic", pages |-> <<>>, log |-> log]
                   ELSE LET uri == SubSeq(fpath, lo + 1, hi)
                            rm  == ReadMeta(fs[<<depth, name>>])
                        IN
                        IF rm.err # "nil" /\ rm.err # "Metadata not found"
                        THEN [status |-> "error", pages |-> <<>>, log |-> log]
                        ELSE ReadDirLoop(d, depth, i + 1,
                                 Append(acc, [Name |-> n, FilePath |-> fpath, URI |-> uri,
                                              Meta |-> Unmarshal(rm.meta).m]),
                                 IF rm.err = "Metadata not found" THEN Append(log, name) ELSE log)
              ELSE ReadDirLoop(d, depth, i + 1, acc, log)

ReadDir(d, depth) == ReadDirLoop(d, depth, 1, <<>>, <<>>)

(***************************************************************************)
(* Route registration and request dispatch                                 *)
(***************************************************************************)
\* Page.Register: the canonical route, then the lowercase alias
PageRegister(m, p, i, b) ==
    LET lowerName == ToLower(p.Name)
        m1 == HandleFunc(m, Join(b, p.URI), "page", i)
    IN  HandleFunc(m1, Join(b, Replace(p.URI, p.Name, lowerName)), "redirect", i)

RECURSIVE AddPageTagsUpdateOnly(_, _, _, _)
AddPageTagsUpdateOnly(st, names, j, i) ==
    IF j > Len(names) THEN st
    ELSE LET u == TagsUpdate(st.tags, names[j], i)
             e == IF u.err = "nil" THEN <<>> ELSE <<[op |-> "Update", name |-> names[j], err |-> u.err]>>
         IN  AddPageTagsUpdateOnly([tags |-> u.tags, errs |-> st.errs \o e], names, j + 1, i)

\* The loop over p.Meta.Tags of initWiki: tags.Add(t); tags.Update(t, p),
\* both return values dropped; st is [tags, errs], errs the dropped errors
RECURSIVE AddPageTags(_, _, _, _)
AddPageTags(st, names, j, i) ==
    IF j > Len(names) THEN st
    ELSE LET a == TagsAdd(st.tags, names[j])
             u == TagsUpdate(a.tags, names[j], i)
             e == (IF a.err = "nil" THEN <<>> ELSE <<[op |-> "Add", name |-> names[j], err |-> a.err]>>)
                  \o (IF u.err = "nil" THEN <<>> ELSE <<[op |-> "Update", name |-> names[j], err |-> u.err]>>)
         IN  AddPageTags([tags |-> u.tags, errs |-> st.errs \o e], names, j + 1, i)

\* path.Split(p): the directory part, up to and including the last slash
RECURSIVE DirPart(_, _)
DirPart(path, i) ==
    IF i < 1 THEN "" ELSE IF CharAt(path, i) = "/" THEN SubSeq(path, 1, i) ELSE DirPart(path, i - 1)

\* http.Redirect: the Location header for target url on a request for path
RedirectLocation(path, url) ==
    LET abs      == IF url = "" \/ CharAt(url, 1) # "/" THEN DirPart(path, Len(path)) \o url ELSE url
        trailing == Len(abs) > 0 /\ CharAt(abs, Len(abs)) = "/"
        cleaned  == Clean(abs)
    IN  IF trailing /\ CharAt(cleaned, Len(cleaned)) # "/" THEN cleaned \o "/" ELSE cleaned

\* ServeMux: the route for a path, an exact pattern first, else the longest
\* pattern ending in a slash that is a prefix of the path; 0 when none
Route(m, path) ==
    LET exact   == {i \in 1..Len(m) : m[i].pattern = path}
        subtree == {i \in 1..Len(m) : /\ CharAt(m[i].pattern, Len(m[i].pattern)) = "/"
                                      /\ HasPrefix(path, m[i].pattern)}
    IN  IF exact # {} THEN CHOOSE i \in exact : TRUE
        ELSE IF subtree # {}
             THEN CHOOSE i \in subtree : \A j \in subtree : Len(m[j].pattern) <= Len(m[i].pattern)
             ELSE 0

(***************************************************************************)
(* Startup (Run, initWiki) and request handling                            *)
(***************************************************************************)
Init ==
    /\ IdleConns
    /\ IdleTags
    /\ IdleMeta
    /\ mux = <<>>
    /\ base \in Bases
    /\ pc = "start"
    /\ dir \in Roots
    /\ fs \in Trees
    /\ pages = <<>>
    /\ scanLog = <<>>
    /\ initErr = FALSE
    /\ k = 0
    /\ tagErrs = <<>>
    /\ resp = NoResponse

\* The redirects.conf block of initWiki: [status, mux]
Redirects(m, b) ==
    IF RedirectsConf \notin DOMAIN fs THEN [status |-> "ok", mux |-> m]
    ELSE IF fs[RedirectsConf] # ConfOk THEN [status |-> "error", mux |-> m]
         ELSE [status |-> "ok", mux |-> HandleFunc(m, Join(b, "old"), "conf", Join(b, "new"))]

\* initWiki up to the return of readDir: the root, favicon and assets
\* routes, the redirects of redirects.conf, then the scan; Run drops the
\* error initWiki returns and goes on to ListenAndServe
Scan ==
    /\ pc = "start"
    /\ LET m0 == [panic |-> FALSE, routes |-> <<>>]
           m1 == HandleFunc(m0, "/", "root", 0)
           m2 == HandleFunc(m1, "/favicon.ico", "favicon", 0)
           m3 == HandleFunc(m2, "/assets/", "assets", 0)
           rc == Redirects(m3, base)
           r  == IF rc.status = "ok" /\ ~rc.mux.panic
                 THEN ReadDir(dir, 0)
                 ELSE [status |-> rc.status, pages |-> <<>>, log |-> <<>>]
       IN
       /\ mux' = rc.mux.routes
       /\ scanLog' = r.log
       /\ pages' = r.pages
       /\ initErr' = (~rc.mux.panic /\ r.status = "error")
       /\ pc' = IF rc.mux.panic \/ r.status = "panic" THEN "panic"
                ELSE IF r.status = "error" THEN "serve"
                ELSE "register"
       /\ k' = 1
    /\ UNCHANGED <<tagVars, metaVars, base, dir, fs, tagErrs, resp, connVars>>

\* One iteration of the loop over pages of initWiki
RegisterPage ==
    /\ pc = "register"
    /\ k <= Len(pages)
    /\ LET m == PageRegister([panic |-> FALSE, routes |-> mux], pages[k], k, base) IN
       /\ mux' = m.routes
       /\ IF m.panic
          THEN pc' = "panic" /\ UNCHANGED <<tags, tagErrs, k>>
          ELSE LET st == AddPageTags([tags |-> tags, errs |-> tagErrs], pages[k].Meta.Tags, 1, k) IN
               /\ tags' = st.tags
               /\ tagErrs' = st.errs
               /\ k' = k + 1
               /\ pc' = pc
    /\ UNCHANGED <<ret, lastCall, added, updates, metaVars, base, dir, fs, pages, scanLog, initErr, resp, connVars>>

\* tags.Register(base) and the return of initWiki
RegisterTags ==
    /\ pc = "register"
    /\ k > Len(pages)
    /\ LET m == TagsRegister(tags, [panic |-> FALSE, routes |-> mux], base) IN
       /\ mux' = m.routes
       /\ pc' = IF m.panic THEN "panic" ELSE "serve"
    /\ UNCHANGED <<tagVars, metaVars, base, dir, fs, pages, scanLog, initErr, k, tagErrs, resp, connVars>>

\* Run after initWiki: http.ListenAndServe
Listen ==
    /\ pc = "serve"
    /\ pc' = "listening"
    /\ UNCHANGED <<tagVars, metaVars, mux, base, dir, fs, pages, scanLog, initErr, k, tagErrs, resp, connVars>>

\* Paths requested: every registered pattern and an unregistered one
RequestPaths == Patterns(mux) \cup {"/nope"}

\* What the environment does to a handler: nothing, a failure of the source
\* of the page (os.ReadFile, goldmark, git), of template.ParseFiles, or of
\* Execute before or after the first byte of the response was written
Outcomes == {"ok", "source", "parse", "execEarly", "execLate"}

\* Page.Handler, Tag.Handler, Tags.Handler. A failed ParseFiles writes the
\* 500 and goes on to Execute on the nil template, which panics; a failed
\* Execute writes the 500 unless the response has begun with status 200
TemplateHandler(path, kind, hasSource, env) ==
    IF env = "source" /\ hasSource
    THEN [path |-> path, status |-> 500, location |-> "", kind |-> kind, panic |-> FALSE, env |-> env]
    ELSE IF env = "parse"
         THEN [path |-> path, status |-> 500, location |-> "", kind |-> kind, panic |-> TRUE, env |-> env]
    ELSE IF env = "execEarly"
         THEN [path |-> path, status |-> 500, location |-> "", kind |-> kind, panic |-> FALSE, env |-> env]
    ELSE [path |-> path, status |-> 200, location |-> "", kind |-> kind, panic |-> FALSE, env |-> env]

\* faviconHandler, the assets file server and RootHandler.Handle
StaticHandler(path, kind, env) ==
    IF kind = "root" /\ path = "/"
    THEN [path |-> path, status |-> 301, location |-> RedirectLocation(path, "/Home"),
          kind |-> kind, panic |-> FALSE, env |-> env]
    ELSE IF kind = "favicon"
         THEN [path |-> path, status |-> IF env = "source" THEN 500 ELSE 200,
               location |-> "", kind |-> kind, panic |-> FALSE, env |-> env]
    ELSE [path |-> path, status |-> IF env = "source" THEN 404 ELSE 200,
          location |-> "", kind |-> kind, panic |-> FALSE, env |-> env]

\* The outcomes that make a difference to the handler of a path
OutcomesOf(path) ==
    LET i == Route(mux, path) IN
    IF i = 0 \/ path = "/" THEN {"ok"}
    ELSE IF mux[i].kind \in {"redirect", "conf"} THEN {"ok"}
    ELSE IF mux[i].kind \in {"tag", "tags"} THEN Outcomes \ {"source"}
    ELSE IF mux[i].kind = "page" THEN Outcomes
    ELSE {"ok", "source"}

\* The answer of the route table to one request: the handler ServeMux
\* selects, run under outcome env
Serve(path, env) ==
    LET i == Route(mux, path) IN
    IF i = 0
    THEN [path |-> path, status |-> 404, location |-> "", kind |-> "none", panic |-> FALSE, env |-> env]
    ELSE IF mux[i].kind = "redirect"
         THEN [path |-> path, status |-> 301,
               location |-> RedirectLocation(path, pages[mux[i].target].URI),
               kind |-> "redirect", panic |-> FALSE, env |-> env]
    ELSE IF mux[i].kind = "conf"
         THEN [path |-> path, status |-> 301,
               location |-> RedirectLocation(path, mux[i].target),
               kind |-> "conf", panic |-> FALSE, env |-> env]
    ELSE IF mux[i].kind \in {"page", "tag", "tags"}
         THEN TemplateHandler(path, mux[i].kind, mux[i].kind = "page", env)
    ELSE StaticHandler(path, mux[i].kind, env)

\* One request served by the route table; the connection serves its
\* requests one after the other
Request(path, env) ==
    /\ pc = "listening"
    /\ resp = NoResponse
    /\ resp' = Serve(path, env)
    /\ UNCHANGED <<tagVars, metaVars, mux, base, pc, dir, fs, pages, scanLog, initErr, k, tagErrs, connVars>>

\* The client has read the response
Deliver ==
    /\ pc = "listening"
    /\ resp # NoResponse
    /\ resp' = NoResponse
    /\ UNCHANGED <<tagVars, metaVars, mux, base, pc, dir, fs, pages, scanLog, initErr, k, tagErrs, connVars>>

Next ==
    \/ Scan
    \/ RegisterPage
    \/ RegisterTags
    \/ Listen
    \/ \E path \in RequestPaths : \E env \in OutcomesOf(path) : Request(path, env)
    \/ Deliver

Spec == Init /\ [][Next]_vars

\* Startup alone: Run up to http.ListenAndServe, no request served, over
\* every tree under the root "wiki" with base "/"
InitStart ==
    /\ Init
    /\ dir = "wiki"
    /\ base = "/"

NextStart ==
    \/ Scan
    \/ RegisterPage
    \/ RegisterTags
    \/ Listen

SpecStart == InitStart /\ [][NextStart]_vars

(***************************************************************************)
(* Properties of the scan and of route registration                        *)
(***************************************************************************)
MdSlots == {sl \in DOMAIN fs : Ext(sl[2]) = ".md"}

\* Every Markdown file of the tree is read without a scanner error
Readable == \A sl \in MdSlots : \A i \in 1..Len(fs[sl]) : fs[sl][i] # ScanFail

\* initWiki has called readDir, which has returned or panicked
ScanCalled == pc # "start" /\ (RedirectsConf \in DOMAIN fs => fs[RedirectsConf] = ConfOk)

\* readDir has returned without error
Scanned == pc \in {"register", "serve", "listening"} /\ ~initErr

RECURSIVE SubPath(_)
SubPath(depth) == IF depth = 0 THEN "" ELSE SubDir \o "/" \o SubPath(depth - 1)

\* Path of a file relative to the wiki root, and the same without extension
RelPath(sl) == SubPath(sl[1]) \o sl[2]
RelStem(sl) == SubSeq(RelPath(sl), 1, Len(RelPath(sl)) - Len(Ext(sl[2])))

PagesOf(sl) == {i \in 1..Len(pages) : pages[i].FilePath = Join(dir, RelPath(sl))}

\* The file has no leading `---` line: its first non-blank line is
\* something else, or it has no non-blank line
NoLeadingDelimiter(lines) ==
    \/ FirstNonBlank(lines) = 0
    \/ ScannedLines(lines)[FirstNonBlank(lines)] # "---"

\* C4 as stated: for every file without a leading `---` line readMeta
\* signals ErrMetaNotFound (readDir logs it), and readDir still produces a
\* Page for the file with empty tags and draft = false.
C4_Original ==
    Scanned =>
        \A sl \in MdSlots :
            NoLeadingDelimiter(fs[sl]) =>
                /\ ReadMeta(fs[sl]).err = "Metadata not found"
                /\ \E i \in 1..Len(scanLog) : scanLog[i] = sl[2]
                /\ \E i \in PagesOf(sl) : pages[i].Meta = ZeroMeta

\* C6 as stated: for every readable tree with N Markdown files at any depth
\* readDir returns exactly N pages, one per Markdown file and none for
\* another file.
C6_Original ==
    (ScanCalled /\ Readable) =>
        /\ Len(pages) = Cardinality(MdSlots)
        /\ \A sl \in MdSlots : Cardinality(PagesOf(sl)) = 1

\* C7 as stated: the URI of every scanned page is its FilePath without the
\* wiki root prefix and without the extension, subdirectory segments kept
\* (with or without the leading slash).
C7_Original ==
    Scanned =>
        \A sl \in MdSlots : \A i \in PagesOf(sl) :
            pages[i].URI \in {RelStem(sl), "/" \o RelStem(sl)}

\* C8 as stated: a request to the lowercase alias path of a registered page
\* is answered with a 301 whose target is the canonical path base + URI.
C8_Original ==
    \A i \in 1..Len(pages) :
        (/\ pc = "listening"
         /\ ~initErr
         /\ resp.path = Join(base, ToLower(pages[i].URI))
         /\ resp.path # Join(base, pages[i].URI))
        => (resp.status = 301 /\ resp.location = Join(base, pages[i].URI))

\* C9 as stated: every Page.Register call of startup completes and both of
\* its routes are accepted by the route table.
C9_Original ==
    [][(pc = "register" /\ k <= Len(pages)) =>
          (pc' # "panic" /\ Len(mux') = Len(mux) + 2)]_vars

(***************************************************************************)
(* Properties of startup                                                   *)
(***************************************************************************)
\* C11 as stated: whenever initWiki fails the process exits and the HTTP
\* listener is never opened.
C11_Original == initErr => pc # "listening"

\* The metadata of the file fails otherwise than by "Metadata not found":
\* the reader fails, or the block it returns does not decode
MetaFailure(lines) ==
    \/ ReadMeta(lines).err \notin {"nil", "Metadata not found"}
    \/ Unmarshal(ReadMeta(lines).meta).err # "nil"

\* C13 as stated: every metadata failure other than "not found", a block
\* that is found but does not parse included, aborts the scan with an error
\* and yields no page list.
C13_Original ==
    (ScanCalled /\ pc # "panic" /\ \E sl \in MdSlots : MetaFailure(fs[sl])) =>
        (initErr /\ pages = <<>>)

\* Number of tag occurrences in the metadata of pages 1..n
RECURSIVE TagOccurrences(_)
TagOccurrences(n) == IF n = 0 THEN 0 ELSE Len(pages[n].Meta.Tags) + TagOccurrences(n - 1)

\* C14 as stated: the pass of startup that builds the tag index makes no
\* Tags.Add call that fails with "already exists" and no Tags.Update call
\* that fails with "not found".
C14_Original == tagErrs = <<>>

\* C14 amended: the pass makes no Tags.Update call that fails with "not
\* found"; its Tags.Add call fails with "already exists" for every
\* occurrence of a tag name after the first, and the error is dropped.
C14_OnlyAddFails ==
    /\ \A i \in 1..Len(tagErrs) :
          tagErrs[i].op = "Add" /\ tagErrs[i].err = "tag already exists"
    /\ k > 0 => Len(tagErrs) = TagOccurrences(k - 1) - Len(tags)

\* The server listens after a startup in which Add failed for the tag
\* shared by two pages
C14_Witness ==
    /\ pc = "listening"
    /\ Len(pages) = 2
    /\ Len(tagErrs) >= 1
    /\ \E i \in 1..Len(tags) : tags[i].Pages = <<1, 2>>

\* The names of the tags of the metadata of all pages
PageTagNames == UNION {{pages[i].Meta.Tags[j] : j \in 1..Len(pages[i].Meta.Tags)} : i \in 1..Len(pages)}

\* The pages whose metadata lists tag t, in scan order
RECURSIVE Carriers(_, _)
Carriers(t, i) ==
    IF i > Len(pages) THEN <<>>
    ELSE IF \E j \in 1..Len(pages[i].Meta.Tags) : pages[i].Meta.Tags[j] = t
         THEN <<i>> \o Carriers(t, i + 1)
         ELSE Carriers(t, i + 1)

\* C15 as stated: after startup the index holds exactly one tag for every
\* tag name of the metadata, and its page list is the pages listing the
\* name, each exactly once, in scan order.
C15_Original ==
    (pc \in {"serve", "listening"} /\ ~initErr) =>
        \A t \in PageTagNames :
            /\ Cardinality({i \in 1..Len(tags) : tags[i].Name = t}) = 1
            /\ \A i \in 1..Len(tags) : tags[i].Name = t => tags[i].Pages = Carriers(t, 1)

(***************************************************************************)
(* Properties of the handlers                                              *)
(***************************************************************************)
\* C12 as stated: a request to a page, tag or tags handler in which the
\* source of the page, template.ParseFiles or Execute fails is answered
\* with a 500 written by the handler, and the handler does not panic.
C12_Original ==
    (resp.kind \in {"page", "tag", "tags"} /\ resp.env \in Outcomes \ {"ok"}) =>
        (resp.status = 500 /\ ~resp.panic)

(***************************************************************************)
(* Concurrent requests: net/http runs every connection in a goroutine of   *)
(* its own, so handlers of different connections interleave                *)
(***************************************************************************)
Programs == {"server", "main"}

\* Trees on which both programs build the same route table: a Markdown
\* file in the root directory, with no front matter under the single-file
\* program, which does not read it at startup
ServeNames == {"Home.md"}
ServeContents(prog) == IF prog = "server" THEN {NoMeta, TagsA} ELSE {NoMeta}
ServeTrees(prog) ==
    UNION {[{<<0, n>> : n \in names} -> ServeContents(prog)] : names \in (SUBSET ServeNames) \ {{}}}

InitServe ==
    /\ IdleTags
    /\ IdleMeta
    /\ mux = <<>>
    /\ base \in Bases
    /\ pc = "start"
    /\ dir = "wiki"
    /\ program \in Programs
    /\ fs \in ServeTrees(program)
    /\ pages = <<>>
    /\ scanLog = <<>>
    /\ initErr = FALSE
    /\ k = 0
    /\ tagErrs = <<>>
    /\ resp = NoResponse
    /\ conns = [c \in Conns |-> IdleConn]
    /\ pmeta = <<>>

\* The kind and the target of the route a connection is serving
KindOf(c) == IF conns[c].route = 0 THEN "none" ELSE mux[conns[c].route].kind
TargetOf(c) == mux[conns[c].route].target

\* The shared locations the handler of connection c is about to read:
\* Page.Handler and Page.HTML read the path and the name of the page,
\* Page.Redirect its URI, Tag.Handler and Tags.Handler the tag index
Reads(c) ==
    IF conns[c].pos # "routed" THEN {}
    ELSE IF KindOf(c) = "page" THEN {<<"Page.FilePath", TargetOf(c)>>, <<"Page.Name", TargetOf(c)>>}
    ELSE IF KindOf(c) = "redirect" THEN {<<"Page.URI", TargetOf(c)>>}
    ELSE IF KindOf(c) = "tag" THEN {<<"Tag.Pages", TargetOf(c)>>}
    ELSE IF KindOf(c) = "tags" THEN {<<"Tags.tags", "">>}
    ELSE {}

\* The shared locations the handler of connection c is about to write:
\* Page.HTML of the single-file program stores p.meta on every request,
\* the handlers of package server write none
Writes(c) ==
    IF conns[c].pos = "routed" /\ KindOf(c) = "page" /\ program = "main"
    THEN {<<"Page.meta", TargetOf(c)>>}
    ELSE {}

\* ServeMux selects the handler of a request read from connection c
Accept(c, path) ==
    /\ pc = "listening"
    /\ conns[c].pos = "idle"
    /\ conns' = [conns EXCEPT ![c] = [pos |-> "routed", path |-> path, route |-> Route(mux, path)]]
    /\ UNCHANGED <<tagVars, metaVars, wikiVars, mux, base, pc, program, pmeta>>

\* The handler runs up to its response: it reads the page or the tags and,
\* in the single-file program, stores p.meta
Handle(c) ==
    /\ pc = "listening"
    /\ conns[c].pos = "routed"
    /\ pmeta' = [i \in DOMAIN pmeta \cup {w[2] : w \in Writes(c)} |->
                    IF <<"Page.meta", i>> \in Writes(c) THEN c ELSE pmeta[i]]
    /\ conns' = [conns EXCEPT ![c].pos = "rendered"]
    /\ UNCHANGED <<tagVars, metaVars, wikiVars, mux, base, pc, program>>

\* What the single-file program does with a failure in a handler: riseErr
\* ends the process with log.Fatalf
Fatal(c, env) == program = "main" /\ env # "ok" /\ KindOf(c) \in {"page", "favicon"}

\* The handler writes its response and the connection waits for the next
\* request
Finish(c, env) ==
    /\ pc = "listening"
    /\ conns[c].pos = "rendered"
    /\ env \in OutcomesOf(conns[c].path)
    /\ conns' = [conns EXCEPT ![c] = IdleConn]
    /\ IF Fatal(c, env)
       THEN pc' = "exited" /\ resp' = resp
       ELSE pc' = pc /\ resp' = Serve(conns[c].path, env)
    /\ UNCHANGED <<tagVars, metaVars, mux, base, dir, fs, pages, scanLog, initErr, k, tagErrs,
                   program, pmeta>>

NextServe ==
    \/ Scan
    \/ RegisterPage
    \/ RegisterTags
    \/ Listen
    \/ \E c \in Conns : \E path \in RequestPaths : Accept(c, path)
    \/ \E c \in Conns : Handle(c)
    \/ \E c \in Conns : \E env \in Outcomes : Finish(c, env)

SpecServe == InitServe /\ [][NextServe]_vars

\* Two connections are about to touch one location and one of them writes
Race ==
    \E c1, c2 \in Conns :
        /\ c1 # c2
        /\ Writes(c1) \cap (Writes(c2) \cup Reads(c2)) # {}

\* C16 as stated: the route table and the tag index are built before the
\* server listens and requests are handled only after; once it listens no
\* handler writes to the route table, a Page or a Tag, and no two requests
\* in flight race on shared state.
C16_Original ==
    [][/\ (conns' # conns => pc = "listening")
       /\ (pc = "listening" => (mux' = mux /\ pages' = pages /\ tags' = tags /\ pmeta' = pmeta))
       /\ ~Race]_vars

====
